---- MODULE Spec2Model ----
(***************************************************************************)
(* Implicitization of Bezier curves: src/src/bezier/_implicitization.py.   *)
(*                                                                         *)
(* Every function of the module is pure, so the state is one call: its     *)
(* arguments, the function called, and what the call produced (a return    *)
(* value or a raised exception, and the parameters at which the            *)
(* intersection polynomial was sampled).                                   *)
(*                                                                         *)
(* Numbers are exact rationals <<n, d>> in lowest terms with d > 0: the    *)
(* statements checked are those of exact arithmetic.  With integer nodes   *)
(* and parameters that are quarters, binary64 holds every value of the     *)
(* closed forms exactly; numpy.linalg.det is modelled by the determinant   *)
(* it approximates.                                                        *)
(***************************************************************************)
EXTENDS Integers, Sequences, FiniteSets

----------------------------------------------------------------------------
(* Exact arithmetic.                                                       *)

Abs(n) == IF n < 0 THEN -n ELSE n

RECURSIVE Gcd(_, _)
Gcd(a, b) == IF b = 0 THEN a ELSE Gcd(b, a % b)

Rat(n, d) ==
    IF d = 1 THEN <<n, 1>>
    ELSE IF n = 0 THEN <<0, 1>>
    ELSE LET g == Gcd(Abs(n), Abs(d))
             s == IF d < 0 THEN -1 ELSE 1
         IN  <<s * (n \div g), s * (d \div g)>>

Zero == <<0, 1>>
One == <<1, 1>>
Int2Rat(n) == <<n, 1>>

RAdd(p, q) ==
    IF p[2] = q[2] THEN Rat(p[1] + q[1], p[2])
    ELSE LET g == Gcd(p[2], q[2])
         IN  Rat(p[1] * (q[2] \div g) + q[1] * (p[2] \div g), (p[2] \div g) * q[2])
RNeg(p) == <<-p[1], p[2]>>
RSub(p, q) == RAdd(p, RNeg(q))
RMul(p, q) ==
    IF p[1] = 0 \/ q[1] = 0 THEN Zero
    ELSE LET a == Rat(p[1], q[2])
             b == Rat(q[1], p[2])
         IN  <<a[1] * b[1], a[2] * b[2]>>
RScale(k, p) == RMul(Int2Rat(k), p)
RDiv(p, q) == RMul(p, IF q[1] < 0 THEN <<-q[2], -q[1]>> ELSE <<q[2], q[1]>>)

----------------------------------------------------------------------------
(* numpy.linalg.det: the determinant of a square matrix, given as a        *)
(* sequence of rows, by expansion along the columns from left to right.    *)

DropAt(s, k) == [i \in 1..(Len(s) - 1) |-> IF i < k THEN s[i] ELSE s[i + 1]]

RECURSIVE Minor(_, _, _), Expand(_, _, _, _)
Minor(M, rows, c) ==
    IF rows = <<>> THEN One ELSE Expand(M, rows, c, 1)
Expand(M, rows, c, k) ==
    IF k > Len(rows) THEN Zero
    ELSE LET e == M[rows[k]][c]
             rest == Expand(M, rows, c, k + 1)
         IN  IF e = Zero THEN rest
             ELSE LET term == RMul(e, Minor(M, DropAt(rows, k), c + 1))
                  IN  RAdd(rest, IF k % 2 = 1 THEN term ELSE RNeg(term))

det(M) == Minor(M, [i \in 1..Len(M) |-> i], 1)

----------------------------------------------------------------------------
(* Results of a call.                                                      *)

(* A call returns a value or raises an exception with its args tuple; an    *)
(* element of args is a string or an integer.                              *)

Return(v) == [kind |-> "return", value |-> v]
Raise(type, args) == [kind |-> "raise", type |-> type, args |-> args]
NoResult == [kind |-> "none"]
ArgStr(s) == [tag |-> "str", str |-> s, int |-> 0]
ArgInt(n) == [tag |-> "int", str |-> "", int |-> n]

----------------------------------------------------------------------------
(* _evaluate3: the 6x6 modified Sylvester determinant of a cubic.          *)

SylvesterEntry(delta, i, j) ==
    LET band == (j - 1) \div 2
        col == ((j - 1) % 2) + 1
        row == i - band
    IN  IF row >= 1 /\ row <= 4 THEN delta[row][col] ELSE Zero

(* The slip of leaving out delta[1:3, :] *= 3.0.                           *)
_evaluate3_unscaled(nodes, x_val, y_val) ==
    LET delta == [r \in 1..4 |->
                     <<RSub(nodes[r][1], x_val), RSub(nodes[r][2], y_val)>>]
        sylvester_mat == [i \in 1..6 |-> [j \in 1..6 |-> SylvesterEntry(delta, i, j)]]
    IN  det(sylvester_mat)

_evaluate3(nodes, x_val, y_val) ==
    LET shifted == [r \in 1..4 |->
                       <<RSub(nodes[r][1], x_val), RSub(nodes[r][2], y_val)>>]
        delta == [r \in 1..4 |->
                     IF r = 2 \/ r = 3
                     THEN <<RScale(3, shifted[r][1]), RScale(3, shifted[r][2])>>
                     ELSE shifted[r]]
        sylvester_mat == [i \in 1..6 |-> [j \in 1..6 |-> SylvesterEntry(delta, i, j)]]
    IN  det(sylvester_mat)

(* evaluate, degree 1: the 2x2 determinant of (node - query).              *)
evaluate_degree1(nodes, x_val, y_val) ==
    RSub(RMul(RSub(nodes[1][1], x_val), RSub(nodes[2][2], y_val)),
         RMul(RSub(nodes[2][1], x_val), RSub(nodes[1][2], y_val)))

(* The slip of a wrong sign in sub_det_d: val_b * sub1 + val_c * sub2.     *)
evaluate_degree2_sign(nodes, x_val, y_val) ==
    LET val_a == RSub(nodes[1][1], x_val)
        val_b == RScale(2, RSub(nodes[2][1], x_val))
        val_c == RSub(nodes[3][1], x_val)
        val_d == RSub(nodes[1][2], y_val)
        val_e == RScale(2, RSub(nodes[2][2], y_val))
        val_f == RSub(nodes[3][2], y_val)
        sub1 == RSub(RMul(val_b, val_f), RMul(val_c, val_e))
        sub2 == RSub(RMul(val_a, val_f), RMul(val_c, val_d))
        sub_det_a == RAdd(RMul(RNeg(val_e), sub1), RMul(val_f, sub2))
        sub_det_d == RAdd(RMul(val_b, sub1), RMul(val_c, sub2))
    IN  RAdd(RMul(val_a, sub_det_a), RMul(val_d, sub_det_d))

(* The slip of leaving out val_b *= 2 and val_e *= 2.                      *)
evaluate_degree2_undoubled(nodes, x_val, y_val) ==
    LET val_a == RSub(nodes[1][1], x_val)
        val_b == RSub(nodes[2][1], x_val)
        val_c == RSub(nodes[3][1], x_val)
        val_d == RSub(nodes[1][2], y_val)
        val_e == RSub(nodes[2][2], y_val)
        val_f == RSub(nodes[3][2], y_val)
        sub1 == RSub(RMul(val_b, val_f), RMul(val_c, val_e))
        sub2 == RSub(RMul(val_a, val_f), RMul(val_c, val_d))
        sub_det_a == RAdd(RMul(RNeg(val_e), sub1), RMul(val_f, sub2))
        sub_det_d == RSub(RMul(val_b, sub1), RMul(val_c, sub2))
    IN  RAdd(RMul(val_a, sub_det_a), RMul(val_d, sub_det_d))

(* evaluate, degree 2: the reduced 4x4 modified Sylvester determinant.     *)
evaluate_degree2(nodes, x_val, y_val) ==
    LET val_a == RSub(nodes[1][1], x_val)
        val_b == RScale(2, RSub(nodes[2][1], x_val))
        val_c == RSub(nodes[3][1], x_val)
        val_d == RSub(nodes[1][2], y_val)
        val_e == RScale(2, RSub(nodes[2][2], y_val))
        val_f == RSub(nodes[3][2], y_val)
        sub1 == RSub(RMul(val_b, val_f), RMul(val_c, val_e))
        sub2 == RSub(RMul(val_a, val_f), RMul(val_c, val_d))
        sub_det_a == RAdd(RMul(RNeg(val_e), sub1), RMul(val_f, sub2))
        sub_det_d == RSub(RMul(val_b, sub1), RMul(val_c, sub2))
    IN  RAdd(RMul(val_a, sub_det_a), RMul(val_d, sub_det_d))

(* The dispatch its own message describes: degrees 1 and 2 only.           *)
evaluate_no_cubic(nodes, x_val, y_val) ==
    LET num_nodes == Len(nodes)
    IN  IF num_nodes = 1
        THEN Raise("ValueError", <<ArgStr("A point cannot be implicitized")>>)
        ELSE IF num_nodes = 2
        THEN Return(evaluate_degree1(nodes, x_val, y_val))
        ELSE IF num_nodes = 3
        THEN Return(evaluate_degree2(nodes, x_val, y_val))
        ELSE Raise("NotImplementedError", <<ArgStr("Only degrees 1 and 2 supported")>>)

(* evaluate: dispatch on the number of rows of nodes.                      *)
evaluate(nodes, x_val, y_val) ==
    LET num_nodes == Len(nodes)
    IN  IF num_nodes = 1
        THEN Raise("ValueError", <<ArgStr("A point cannot be implicitized")>>)
        ELSE IF num_nodes = 2
        THEN Return(evaluate_degree1(nodes, x_val, y_val))
        ELSE IF num_nodes = 3
        THEN Return(evaluate_degree2(nodes, x_val, y_val))
        ELSE IF num_nodes = 4
        THEN Return(_evaluate3(nodes, x_val, y_val))
        ELSE Raise("NotImplementedError", <<ArgStr("Only degrees 1 and 2 supported")>>)

----------------------------------------------------------------------------
(* _curve_helpers.evaluate_multi: the positions of a curve at a sequence   *)
(* of parameters, by de Casteljau's algorithm.                             *)

Lerp(p, q, s) ==
    <<RAdd(RMul(RSub(One, s), p[1]), RMul(s, q[1])),
      RAdd(RMul(RSub(One, s), p[2]), RMul(s, q[2]))>>

RECURSIVE deCasteljau(_, _)
deCasteljau(pts, s) ==
    IF Len(pts) = 1 THEN pts[1]
    ELSE deCasteljau([i \in 1..(Len(pts) - 1) |-> Lerp(pts[i], pts[i + 1], s)], s)

evaluate_multi(nodes, s_vals) ==
    [i \in 1..Len(s_vals) |-> deCasteljau(nodes, s_vals[i])]

(* eval_intersection_polynomial: g(t) = f1(x2(t), y2(t)).                  *)
EvaluateAt(nodes, pt) == evaluate(nodes, pt[1], pt[2])

eval_intersection_polynomial(nodes1, nodes2, t) ==
    EvaluateAt(nodes1, evaluate_multi(nodes2, <<t>>)[1])

----------------------------------------------------------------------------
(* The power-basis helpers.  Each samples the intersection polynomial and  *)
(* combines the samples; the outcome is what the call produced together    *)
(* with the parameters it sampled at, in order.  An exception raised by a  *)
(* sample propagates.                                                      *)

Outcome(res, ts) == [res |-> res, sampled |-> ts]

Sampled(nodes1, nodes2, ts) ==
    [i \in 1..Len(ts) |-> eval_intersection_polynomial(nodes1, nodes2, ts[i])]

RECURSIVE FirstRaise(_, _)
FirstRaise(vals, i) ==
    IF i > Len(vals) THEN 0
    ELSE IF vals[i].kind = "raise" THEN i
    ELSE FirstRaise(vals, i + 1)

(* sum_j row[j] * vals[j].value *)
RECURSIVE Combine(_, _, _)
Combine(row, vals, j) ==
    IF j > Len(row) THEN Zero
    ELSE RAdd(RScale(row[j], vals[j].value), Combine(row, vals, j + 1))

Combined(vals, bad, ts, matrix) ==
    IF bad # 0 THEN Outcome(vals[bad], [i \in 1..bad |-> ts[i]])
    ELSE Outcome(Return([k \in 1..Len(matrix) |-> Combine(matrix[k], vals, 1)]), ts)

CombineSamples(vals, ts, matrix) == Combined(vals, FirstRaise(vals, 1), ts, matrix)

Helper(nodes1, nodes2, ts, matrix) ==
    CombineSamples(Sampled(nodes1, nodes2, ts), ts, matrix)

Half == <<1, 2>>
Quarter == <<1, 4>>
ThreeQuarters == <<3, 4>>

(* The slip of a wrong sign in the second row: [c1] = [1 1].               *)
_to_power_basis11_sign(nodes1, nodes2) ==
    Helper(nodes1, nodes2, <<Zero, One>>,
           << << 1, 0>>,
              << 1, 1>> >>)

_to_power_basis11(nodes1, nodes2) ==
    Helper(nodes1, nodes2, <<Zero, One>>,
           << << 1, 0>>,
              <<-1, 1>> >>)

_to_power_basis12(nodes1, nodes2) ==
    Helper(nodes1, nodes2, <<Zero, Half, One>>,
           << << 1,  0,  0>>,
              <<-3,  4, -1>>,
              << 2, -4,  2>> >>)

(* The slip of a wrong sign in the second row: + 8.0 * val2.               *)
_to_power_basis13_sign(nodes1, nodes2) ==
    Helper(nodes1, nodes2, <<Zero, Quarter, ThreeQuarters, One>>,
           << <<  3,   0,   0,   0>>,
              <<-19,  24,   8,   3>>,
              << 32, -56,  40, -16>>,
              <<-16,  32, -32,  16>> >>)

_to_power_basis13(nodes1, nodes2) ==
    Helper(nodes1, nodes2, <<Zero, Quarter, ThreeQuarters, One>>,
           << <<  3,   0,   0,   0>>,
              <<-19,  24,  -8,   3>>,
              << 32, -56,  40, -16>>,
              <<-16,  32, -32,  16>> >>)

(* The slip of two digits exchanged in the third row: 288.0 * val2.        *)
_to_power_basis22_digits(nodes1, nodes2) ==
    Helper(nodes1, nodes2, <<Zero, Quarter, Half, ThreeQuarters, One>>,
           << <<  3,    0,    0,    0,   0>>,
              <<-25,   48,  -36,   16,  -3>>,
              << 70, -208,  288, -112,  22>>,
              <<-80,  288, -384,  224, -48>>,
              << 32, -128,  192, -128,  32>> >>)

_to_power_basis22(nodes1, nodes2) ==
    Helper(nodes1, nodes2, <<Zero, Quarter, Half, ThreeQuarters, One>>,
           << <<  3,    0,    0,    0,   0>>,
              <<-25,   48,  -36,   16,  -3>>,
              << 70, -208,  228, -112,  22>>,
              <<-80,  288, -384,  224, -48>>,
              << 32, -128,  192, -128,  32>> >>)

(* The raise that ends to_power_basis: no sample has been taken.           *)
UnsupportedPair(num_nodes1, num_nodes2) ==
    Outcome(Raise("NotImplementedError",
                  <<ArgStr("Degree 1"), ArgInt(num_nodes1 - 1),
                    ArgStr("Degree2"), ArgInt(num_nodes2 - 1),
                    ArgStr("Currently only supporting degree pairs 1-1, 1-2, 1-3 and 2-2")>>),
            <<>>)

(* A dispatch that accepts the reversed pair 2-1 by swapping the curves.   *)
to_power_basis_swapping(nodes1, nodes2) ==
    LET num_nodes1 == Len(nodes1)
        num_nodes2 == Len(nodes2)
    IN  IF num_nodes1 = 2
        THEN IF num_nodes2 = 2 THEN _to_power_basis11(nodes1, nodes2)
             ELSE IF num_nodes2 = 3 THEN _to_power_basis12(nodes1, nodes2)
             ELSE IF num_nodes2 = 4 THEN _to_power_basis13(nodes1, nodes2)
             ELSE UnsupportedPair(num_nodes1, num_nodes2)
        ELSE IF num_nodes1 = 3
        THEN IF num_nodes2 = 3 THEN _to_power_basis22(nodes1, nodes2)
             ELSE IF num_nodes2 = 2 THEN _to_power_basis12(nodes2, nodes1)
             ELSE UnsupportedPair(num_nodes1, num_nodes2)
        ELSE UnsupportedPair(num_nodes1, num_nodes2)

(* A dispatch that sends the pair 2-2 to the helper of the pair 1-3.       *)
to_power_basis_22_as_13(nodes1, nodes2) ==
    LET num_nodes1 == Len(nodes1)
        num_nodes2 == Len(nodes2)
    IN  IF num_nodes1 = 2
        THEN IF num_nodes2 = 2 THEN _to_power_basis11(nodes1, nodes2)
             ELSE IF num_nodes2 = 3 THEN _to_power_basis12(nodes1, nodes2)
             ELSE IF num_nodes2 = 4 THEN _to_power_basis13(nodes1, nodes2)
             ELSE UnsupportedPair(num_nodes1, num_nodes2)
        ELSE IF num_nodes1 = 3
        THEN IF num_nodes2 = 3 THEN _to_power_basis13(nodes1, nodes2)
             ELSE UnsupportedPair(num_nodes1, num_nodes2)
        ELSE UnsupportedPair(num_nodes1, num_nodes2)

to_power_basis(nodes1, nodes2) ==
    LET num_nodes1 == Len(nodes1)
        num_nodes2 == Len(nodes2)
    IN  IF num_nodes1 = 2
        THEN IF num_nodes2 = 2 THEN _to_power_basis11(nodes1, nodes2)
             ELSE IF num_nodes2 = 3 THEN _to_power_basis12(nodes1, nodes2)
             ELSE IF num_nodes2 = 4 THEN _to_power_basis13(nodes1, nodes2)
             ELSE UnsupportedPair(num_nodes1, num_nodes2)
        ELSE IF num_nodes1 = 3
        THEN IF num_nodes2 = 3 THEN _to_power_basis22(nodes1, nodes2)
             ELSE UnsupportedPair(num_nodes1, num_nodes2)
        ELSE UnsupportedPair(num_nodes1, num_nodes2)

----------------------------------------------------------------------------
(* The state: the arguments of one call and what the call produced.        *)

VARIABLES nodes1, nodes2, x_val, y_val, t, op, ret, sampled

vars == <<nodes1, nodes2, x_val, y_val, t, op, ret, sampled>>

CallEvaluate ==
    /\ op = "idle"
    /\ op' = "evaluate"
    /\ ret' = evaluate(nodes1, x_val, y_val)
    /\ UNCHANGED <<nodes1, nodes2, x_val, y_val, t, sampled>>

CallEvalIntersectionPolynomial ==
    /\ op = "idle"
    /\ op' = "eval_intersection_polynomial"
    /\ ret' = eval_intersection_polynomial(nodes1, nodes2, t)
    /\ UNCHANGED <<nodes1, nodes2, x_val, y_val, t, sampled>>

CallToPowerBasis ==
    /\ op = "idle"
    /\ op' = "to_power_basis"
    /\ \E out \in {to_power_basis(nodes1, nodes2)} :
          /\ ret' = out.res
          /\ sampled' = out.sampled
    /\ UNCHANGED <<nodes1, nodes2, x_val, y_val, t>>

Idle ==
    /\ op = "idle"
    /\ ret = NoResult
    /\ sampled = <<>>

----------------------------------------------------------------------------
(* Inputs.                                                                 *)

Grid(m) == {<<Int2Rat(a), Int2Rat(b)>> : a \in 0..m, b \in 0..m}
Curves(rows, pts) == [1..rows -> pts]

----------------------------------------------------------------------------
(* SpecOnCurve: a curve of degree 1, 2 or 3 is evaluated on itself,        *)
(* evaluate(nodes, position of nodes at t).  A cubic is taken at 0, 1/2    *)
(* and 1 only: at quarters the 6x6 determinant's terms have denominator    *)
(* 2^36, past 32-bit integers.                                             *)

MaxCoord == 1

OnCurveParams(rows) ==
    IF rows = 4 THEN {Zero, Half, One}
    ELSE {Zero, Quarter, Half, ThreeQuarters, One}

InitOnCurve ==
    /\ \E rows \in 2..4 :
          /\ nodes1 \in Curves(rows, Grid(MaxCoord))
          /\ t \in OnCurveParams(rows)
    /\ nodes2 = nodes1
    /\ x_val = Zero
    /\ y_val = Zero
    /\ Idle

SpecOnCurve == InitOnCurve /\ [][CallEvalIntersectionPolynomial]_vars

Pt(a, b) == <<Int2Rat(a), Int2Rat(b)>>

(* C4: the implicit curve contains the parametric curve: for a curve of    *)
(* degree 1, 2 or 3, evaluate at the curve's own position at t returns 0.  *)
C4_OnCurveIsZero ==
    op = "eval_intersection_polynomial" => ret = Return(Zero)

(* A cubic that is no line (its implicit polynomial is not zero at (1, 1)) *)
(* evaluated at its own midpoint.                                          *)
C4_Witness ==
    /\ op = "eval_intersection_polynomial"
    /\ nodes1 = <<Pt(0, 0), Pt(0, 1), Pt(1, 1), Pt(1, 0)>>
    /\ nodes2 = nodes1
    /\ t = Half
    /\ evaluate_multi(nodes1, <<t>>)[1] = <<Half, ThreeQuarters>>
    /\ evaluate(nodes1, One, One).value # Zero
    /\ ret = Return(Zero)

----------------------------------------------------------------------------
(* SpecDispatch: evaluate and to_power_basis on node arrays of 1 to        *)
(* MaxRows rows.  Both functions read the rows' count first; the rows are   *)
(* drawn from two points each.                                             *)

MaxRows == 5

CurvesUpTo(maxRows, pts) == UNION {Curves(rows, pts) : rows \in 1..maxRows}

InitDispatch ==
    /\ nodes1 \in CurvesUpTo(MaxRows, {Pt(0, 0), Pt(1, 1)})
    /\ nodes2 \in CurvesUpTo(MaxRows, {Pt(0, 1), Pt(1, 0)})
    /\ x_val \in {Zero, One}
    /\ y_val = Zero
    /\ t = Zero
    /\ Idle

NextDispatch == CallEvaluate \/ CallToPowerBasis

SpecDispatch == InitDispatch /\ [][NextDispatch]_vars

Degree(nodes) == Len(nodes) - 1

SupportedPairs == {<<1, 1>>, <<1, 2>>, <<1, 3>>, <<2, 2>>}

C2_PowerBasisDispatch ==
    op = "to_power_basis" =>
        /\ ret.kind = "return" <=> <<Degree(nodes1), Degree(nodes2)>> \in SupportedPairs
        /\ ret.kind # "return" =>
               /\ ret.kind = "raise"
               /\ ret.type = "NotImplementedError"
               /\ sampled = <<>>

(* The reversed pair 2-1. *)
C2_Witness ==
    /\ op = "to_power_basis"
    /\ Degree(nodes1) = 2
    /\ Degree(nodes2) = 1
    /\ ret.kind = "raise"
    /\ ret.type = "NotImplementedError"
    /\ sampled = <<>>

CarriesInt(args, n) == \E i \in 1..Len(args) : args[i].tag = "int" /\ args[i].int = n

(* C7: every NotImplementedError names the offending degrees: evaluate's   *)
(* carries the degree N - 1, to_power_basis's carries both degrees.        *)
C7_ErrorNamesDegrees ==
    (ret.kind = "raise" /\ ret.type = "NotImplementedError") =>
        /\ op = "evaluate" => CarriesInt(ret.args, Degree(nodes1))
        /\ op = "to_power_basis" =>
               /\ CarriesInt(ret.args, Degree(nodes1))
               /\ CarriesInt(ret.args, Degree(nodes2))

(* The half of C7 that the code keeps: to_power_basis's error.             *)
C7_PowerBasisErrorNamesDegrees ==
    (op = "to_power_basis" /\ ret.kind = "raise") =>
        /\ CarriesInt(ret.args, Degree(nodes1))
        /\ CarriesInt(ret.args, Degree(nodes2))

----------------------------------------------------------------------------
(* SpecPowerBasis: to_power_basis on the four supported degree pairs.  The  *)
(* first curve is one of a few lines and conics, the second any curve      *)
(* with nodes in the grid.                                                 *)

RefLines ==
    { <<Pt(0, 0), Pt(1, 1)>>, <<Pt(0, 1), Pt(2, 0)>> }

RefConics ==
    { <<Pt(0, 0), Pt(1, 2), Pt(2, 0)>>,
      <<Pt(0, 1), Pt(1, 0), Pt(2, 2)>> }

InitPowerBasis ==
    /\ \/ /\ nodes1 \in RefLines
          /\ \E rows \in 2..4 : nodes2 \in Curves(rows, Grid(MaxCoord))
       \/ /\ nodes1 \in RefConics
          /\ nodes2 \in Curves(3, Grid(MaxCoord))
    /\ x_val = Zero
    /\ y_val = Zero
    /\ t = Zero
    /\ Idle

SpecPowerBasis == InitPowerBasis /\ [][CallToPowerBasis]_vars

DegreePair == <<Degree(nodes1), Degree(nodes2)>>

(* The parameters each pair is sampled at. *)
SampleParams ==
    CASE DegreePair = <<1, 1>> -> <<Zero, One>>
      [] DegreePair = <<1, 2>> -> <<Zero, Half, One>>
      [] DegreePair = <<1, 3>> -> <<Zero, Quarter, ThreeQuarters, One>>
      [] DegreePair = <<2, 2>> -> <<Zero, Quarter, Half, ThreeQuarters, One>>

(* The multiple of the intersection polynomial each pair returns. *)
Scale == IF DegreePair \in {<<1, 3>>, <<2, 2>>} THEN 3 ELSE 1

(* sum_k c[k] * s^(k-1), by Horner's rule from the highest coefficient. *)
RECURSIVE HornerFrom(_, _, _)
HornerFrom(c, s, k) ==
    IF k > Len(c) THEN Zero
    ELSE RAdd(c[k], RMul(s, HornerFrom(c, s, k + 1)))

Horner(c, s) == HornerFrom(c, s, 1)

SampleValue(s) == eval_intersection_polynomial(nodes1, nodes2, s).value

Returned == op = "to_power_basis" /\ ret.kind = "return"

(* C3 as stated: the polynomial of the returned coefficients takes, at     *)
(* every parameter sampled, exactly the sampled value.                     *)
C3_RoundTripExact ==
    Returned =>
        \A i \in 1..Len(sampled) :
            Horner(ret.value, sampled[i]) = SampleValue(sampled[i])

(* C3, amended: the parameters sampled are those of the pair, and at each  *)
(* the polynomial of the returned coefficients takes the sampled value     *)
(* for the pairs 1-1 and 1-2, three times the sampled value for the pairs  *)
(* 1-3 and 2-2.                                                            *)
C3_RoundTripScaled ==
    Returned =>
        /\ sampled = SampleParams
        /\ \A i \in 1..Len(sampled) :
              Horner(ret.value, sampled[i]) = RScale(Scale, SampleValue(sampled[i]))

(* A pair 2-2 with a sample that is not zero. *)
C3_Witness ==
    /\ Returned
    /\ DegreePair = <<2, 2>>
    /\ sampled = <<Zero, Quarter, Half, ThreeQuarters, One>>
    /\ SampleValue(Quarter) # Zero
    /\ Horner(ret.value, Quarter) = RScale(3, SampleValue(Quarter))

(* C5: a supported pair returns degree1 * degree2 + 1 coefficients.        *)
C5_CoefficientCount ==
    Returned => Len(ret.value) = Degree(nodes1) * Degree(nodes2) + 1

C5_Witness ==
    /\ Returned
    /\ DegreePair = <<2, 2>>
    /\ Len(ret.value) = 5

(* The polynomial of degree < Len(ts) through the points (ts[i], vs[i]),   *)
(* by Newton's divided differences, in ascending power order.              *)
NextDifferences(ts, d, j) ==
    [i \in 1..(Len(d) - 1) |-> RDiv(RSub(d[i + 1], d[i]), RSub(ts[i + j], ts[i]))]

RECURSIVE NewtonCoefficients(_, _, _)
NewtonCoefficients(ts, d, j) ==
    IF Len(d) = 1 THEN <<d[1]>>
    ELSE <<d[1]>> \o NewtonCoefficients(ts, NextDifferences(ts, d, j), j + 1)

(* a + (s - r) * P *)
Nest(P, r, a) ==
    [k \in 1..(Len(P) + 1) |->
        RAdd(IF k = 1 THEN a ELSE P[k - 1],
             IF k <= Len(P) THEN RNeg(RMul(r, P[k])) ELSE Zero)]

RECURSIVE NewtonToPower(_, _, _)
NewtonToPower(a, ts, j) ==
    IF j = Len(a) THEN <<a[j]>>
    ELSE Nest(NewtonToPower(a, ts, j + 1), ts[j], a[j])

Interpolant(ts, vs) == NewtonToPower(NewtonCoefficients(ts, vs, 1), ts, 1)

SampleValues == [i \in 1..Len(SampleParams) |-> SampleValue(SampleParams[i])]

ScaledBy(k, P) == [i \in 1..Len(P) |-> RScale(k, P[i])]

(* C9: the returned coefficients are those of the unique polynomial of     *)
(* degree <= degree1 * degree2 through the sampled values, each times 1    *)
(* for the pairs 1-1 and 1-2 and times 3 for the pairs 1-3 and 2-2.        *)
C9_ScaledInterpolant ==
    Returned => ret.value = ScaledBy(Scale, Interpolant(SampleParams, SampleValues))

(* A pair 1-3 whose intersection polynomial is a true cubic. *)
C9_Witness ==
    /\ Returned
    /\ DegreePair = <<1, 3>>
    /\ ret.value[4] # Zero
    /\ ret.value = ScaledBy(3, Interpolant(SampleParams, SampleValues))
    /\ ret.value # Interpolant(SampleParams, SampleValues)

----------------------------------------------------------------------------
(* SpecLines: to_power_basis on two degree-1 curves with nodes in the grid. *)

InitLines ==
    /\ nodes1 \in Curves(2, Grid(MaxCoord))
    /\ nodes2 \in Curves(2, Grid(MaxCoord))
    /\ x_val = Zero
    /\ y_val = Zero
    /\ t = Zero
    /\ Idle

SpecLines == InitLines /\ [][CallToPowerBasis]_vars

Minus(p, q) == <<RSub(p[1], q[1]), RSub(p[2], q[2])>>
Cross(u, v) == RSub(RMul(u[1], v[2]), RMul(u[2], v[1]))
Dot(u, v) == RAdd(RMul(u[1], v[1]), RMul(u[2], v[2]))
Direction(nodes) == Minus(nodes[2], nodes[1])

(* The two lines are lines and are not parallel. *)
CrossOnce == Cross(Direction(nodes1), Direction(nodes2)) # Zero

(* The point of the line through nodes at the parameter of pt's foot. *)
Foot(nodes, pt) ==
    deCasteljau(nodes, RDiv(Dot(Minus(pt, nodes[1]), Direction(nodes)),
                            Dot(Direction(nodes), Direction(nodes))))

Root(c) == RDiv(RNeg(c[1]), c[2])

IsExample ==
    /\ nodes1 = <<Pt(0, 0), Pt(1, 1)>>
    /\ nodes2 = <<Pt(0, 1), Pt(1, 0)>>

(* C6: for two lines that cross once, to_power_basis returns [c0, c1]      *)
(* with c1 # 0, and the second curve at the root -c0/c1 is a point of the  *)
(* first line: the crossing point.  For the lines (0,0)-(1,1) and          *)
(* (0,1)-(1,0) the root is 1/2 and the point (1/2, 1/2).                   *)
C6_RootIsCrossing ==
    (Returned /\ CrossOnce) =>
        /\ Len(ret.value) = 2
        /\ ret.value[2] # Zero
        /\ Foot(nodes1, deCasteljau(nodes2, Root(ret.value)))
              = deCasteljau(nodes2, Root(ret.value))
        /\ IsExample =>
              /\ Root(ret.value) = Half
              /\ deCasteljau(nodes2, Root(ret.value)) = <<Half, Half>>

C6_Witness ==
    /\ Returned
    /\ IsExample
    /\ CrossOnce
    /\ ret.value = <<Int2Rat(1), Int2Rat(-2)>>
    /\ Root(ret.value) = Half

----------------------------------------------------------------------------
(* SpecQuadratic: evaluate on a 3-node curve with nodes in the grid, at    *)
(* the points of the grid and the points half-way between them.            *)

HalfGrid(m) == {<<Rat(a, 2), Rat(b, 2)>> : a \in 0..(2 * m), b \in 0..(2 * m)}

InitQuadratic ==
    /\ nodes1 \in Curves(3, Grid(MaxCoord))
    /\ nodes2 = nodes1
    /\ \E q \in HalfGrid(MaxCoord) : x_val = q[1] /\ y_val = q[2]
    /\ t = Zero
    /\ Idle

SpecQuadratic == InitQuadratic /\ [][CallEvaluate]_vars

(* The 4x4 modified Sylvester matrix of a 3-node curve at a query point. *)
Sylvester4(nodes, x, y) ==
    LET a == RSub(nodes[1][1], x)
        b == RScale(2, RSub(nodes[2][1], x))
        c == RSub(nodes[3][1], x)
        d == RSub(nodes[1][2], y)
        e == RScale(2, RSub(nodes[2][2], y))
        f == RSub(nodes[3][2], y)
    IN  << <<a, b, c, Zero>>,
           <<Zero, a, b, c>>,
           <<d, e, f, Zero>>,
           <<Zero, d, e, f>> >>

(* C8: for a 3-node curve, evaluate's closed form is the determinant of    *)
(* the 4x4 modified Sylvester matrix, with the same sign.                  *)
C8_ClosedFormIsDeterminant ==
    (op = "evaluate" /\ Len(nodes1) = 3) =>
        ret = Return(det(Sylvester4(nodes1, x_val, y_val)))

(* A parabola and a point off it. *)
C8_Witness ==
    /\ op = "evaluate"
    /\ nodes1 = <<Pt(0, 0), Pt(1, 0), Pt(1, 1)>>
    /\ x_val = Half
    /\ y_val = One
    /\ ret.kind = "return"
    /\ ret.value # Zero
    /\ ret.value = det(Sylvester4(nodes1, x_val, y_val))

----------------------------------------------------------------------------
(* SpecElevated: evaluate on degree-elevated nodes: a line through 3 nodes *)
(* and a conic through 4, at the points of the grid.                       *)

Mid(p, q, a, b, n) ==
    <<RDiv(RAdd(RScale(a, p[1]), RScale(b, q[1])), Int2Rat(n)),
      RDiv(RAdd(RScale(a, p[2]), RScale(b, q[2])), Int2Rat(n))>>

Elevated(c) ==
    IF Len(c) = 2
    THEN <<c[1], Mid(c[1], c[2], 1, 1, 2), c[2]>>
    ELSE <<c[1], Mid(c[1], c[2], 1, 2, 3), Mid(c[2], c[3], 2, 1, 3), c[3]>>

InitElevated ==
    /\ \E rows \in 2..3 : \E c \in Curves(rows, Grid(MaxCoord)) : nodes1 = Elevated(c)
    /\ nodes2 = nodes1
    /\ \E q \in Grid(MaxCoord) : x_val = q[1] /\ y_val = q[2]
    /\ t = Zero
    /\ Idle

SpecElevated == InitElevated /\ [][CallEvaluate]_vars

(* C10: on degree-elevated nodes evaluate raises nothing and returns 0 at  *)
(* every query point.                                                      *)
C10_ElevatedIsZero ==
    op = "evaluate" => ret = Return(Zero)

(* A parabola through 4 nodes and a point off it. *)
C10_Witness ==
    /\ op = "evaluate"
    /\ nodes1 = Elevated(<<Pt(0, 0), Pt(1, 0), Pt(1, 1)>>)
    /\ nodes1[2] = <<Rat(2, 3), Zero>>
    /\ x_val = Zero
    /\ y_val = One
    /\ evaluate(<<Pt(0, 0), Pt(1, 0), Pt(1, 1)>>, x_val, y_val).value # Zero
    /\ ret = Return(Zero)

====
